---- MODULE Spec2Model ----
(***************************************************************************)
(* Device-side job agent of aws-iot-jobs-full-system-update (goagent).     *)
(*                                                                         *)
(* awsiotjobs.go : Client (dispatcher) and JobExecution (status reporter)  *)
(* mender.go     : Process / Job.exec (update orchestrator)                *)
(* mendercmd     : execMender (the update tool run as a background task)   *)
(*                                                                         *)
(* Every delivered envelope occupies one slot: jobHandler builds a new     *)
(* JobExecution for it and starts the configured Handler in a goroutine.   *)
(* The position of that goroutine (and of the goroutines it spawns in      *)
(* turn, which never run concurrently with it) is pc[s].                   *)
(***************************************************************************)
EXTENDS Integers, Sequences, FiniteSets, TLC

\* ---------------------------------------------------------------- bounds
MaxProgress == 2      \* progress lines one install emits at most
MaxApiCalls == 2      \* Reporter calls the generic handler makes at most
Timeout == 2          \* mender.go: var timeout, in clock ticks

Slots == {"s1", "s2"}                 \* deliveries handled by jobHandler
JobIds == {"j1", "j2"}                \* jobs the service holds for the thing
NoSlot == "none"

Operations == {"mender_install", "mender_rollback", "mender_insll", ""}
URLs == {"", "http://test"}
PersistedSteps == {"", "installing", "rebooting"}
ProgressLine == "5% 12288 KiB"

Terminal == {"SUCCEEDED", "FAILED", "REJECTED"}
PubOutcomes == {"acked", "error", "lost", "late"}

\* ---------------------------------------------------------------- state
VARIABLES
    agent,       \* main(): "init" | "running" | "panicked"
    clientSubs,  \* the client's five job topics are subscribed
    startNext,   \* number of start-next requests published
    svc,         \* the service's record of each job
    echoQ,       \* accepted echoes in flight to the device
    echoSub,     \* slot whose updateHandler is bound to +/update/accepted
    pc,          \* position of each slot's handler goroutine
    je,          \* JobExecution of each slot
    job,         \* mender.Job of each slot
    sending,     \* the Reporter call whose sendUpdate is pending
    ret,         \* what Job.exec returned
    upd,         \* state of the background cmd.Install task
    nprog,       \* progress lines the task has emitted
    timer,       \* ticks since the pending time.After was created
    elapsed,     \* ticks since the install was started
    calls,       \* per slot: the calls made and messages published, in order
    napi,        \* Reporter calls made by the generic handler
    sent,        \* per slot: how the last sendUpdate ended
    boot         \* transport calls of ConnectAndSubscribe, in order

vars == <<agent, clientSubs, startNext, svc, echoQ, echoSub, pc, je, job,
          sending, ret, upd, nprog, timer, elapsed, calls, napi, sent, boot>>

\* ---------------------------------------------------------------- data
\* StatusDetails: the keys the program uses; "" is an absent key.
Details(step, error) == [step |-> step, error |-> error]
NoDetails == Details("", "")

\* JobError.Error() keeps the code (the message is fixed per code).
ErrorText(code) == code

NoJE == [JobID |-> "", Status |-> "", StatusDetails |-> NoDetails,
         VersionNumber |-> 0, JobDocument |-> [operation |-> "", url |-> ""]]
NoJob == [Operation |-> "", URL |-> "", Step |-> ""]
NoSending == [kind |-> "", after |-> "", ret |-> ""]
NoSent == [kind |-> "", outcome |-> "", err |-> FALSE]

Ev(op, a, b, v) == [op |-> op, a |-> a, b |-> b, v |-> v]

\* The service's record of a job it has not yet delivered is undetermined.
UnknownJob == [known |-> FALSE, doc |-> [operation |-> "", url |-> ""],
               status |-> "", details |-> NoDetails, version |-> 0]

\* A job never reported has version 1; each accepted update adds one.
InitialVersion(step) ==
    CASE step = "" -> 1
      [] step = "installing" -> 2
      [] OTHER -> 3

InitialStatus(step) == IF step = "" THEN "QUEUED" ELSE "IN_PROGRESS"

Init ==
    /\ agent = "init"
    /\ clientSubs = FALSE
    /\ startNext = 0
    /\ svc = [j \in JobIds |-> UnknownJob]
    /\ echoQ = <<>>
    /\ echoSub = NoSlot
    /\ pc = [s \in Slots |-> "idle"]
    /\ je = [s \in Slots |-> NoJE]
    /\ job = [s \in Slots |-> NoJob]
    /\ sending = [s \in Slots |-> NoSending]
    /\ ret = [s \in Slots |-> "none"]
    /\ upd = [s \in Slots |-> "none"]
    /\ nprog = [s \in Slots |-> 0]
    /\ timer = [s \in Slots |-> 0]
    /\ elapsed = [s \in Slots |-> 0]
    /\ calls = [s \in Slots |-> <<>>]
    /\ napi = [s \in Slots |-> 0]
    /\ sent = [s \in Slots |-> NoSent]
    /\ boot = <<>>


\* ------------------------------------------------ the service (consumed)
\* The records the service may hold for a job when it first delivers it.
FirstRecords ==
    { [known |-> TRUE, doc |-> [operation |-> o, url |-> u],
       status |-> InitialStatus(st), details |-> Details(st, ""),
       version |-> InitialVersion(st)] :
         o \in Operations, u \in URLs, st \in PersistedSteps }

Resolve(rec) == IF rec.known THEN {rec} ELSE FirstRecords

\* Optimistic versioning: an update is accepted only if its expectedVersion
\* is the service's own counter; otherwise it is ignored.
ServiceAccepts(rec, p) == p.expectedVersion = rec.version

ServiceApply(rec, p) ==
    [rec EXCEPT !.status = p.status, !.details = p.statusDetails,
                !.version = rec.version + 1]

\* The accepted echo of an update: the service's canonical execution state.
EchoOf(j, rec) ==
    [job |-> j, status |-> rec.status, details |-> rec.details,
     version |-> rec.version]

\* The envelope the service sends for a job (notify-next, start-next/accepted).
EnvelopeOf(j, rec) ==
    [hasExecution |-> TRUE, jobId |-> j, status |-> rec.status,
     statusDetails |-> rec.details, jobDocument |-> rec.doc,
     versionNumber |-> rec.version]

NotAJob == [hasExecution |-> FALSE, jobId |-> "", status |-> "",
            statusDetails |-> NoDetails,
            jobDocument |-> [operation |-> "", url |-> ""],
            versionNumber |-> 0]

\* ------------------------------------------------ awsiotjobs: JobExecution
\* parseJobMessage: the error result for an envelope without "execution".
parseJobMessageErr(env) == ~env.hasExecution

parseJobMessage(env) ==
    IF parseJobMessageErr(env) THEN NoJE
    ELSE [JobID |-> env.jobId, Status |-> env.status,
          StatusDetails |-> env.statusDetails,
          VersionNumber |-> env.versionNumber,
          JobDocument |-> env.jobDocument]

getUpdatePayload(e) ==
    [status |-> e.Status, statusDetails |-> e.StatusDetails,
     expectedVersion |-> e.VersionNumber]

\* sendUpdate returns an error iff the token completed in time with an error.
sendUpdateErr(outcome) == outcome = "error"

\* Whether the published message reaches the service.
Delivered(outcome) == outcome \in {"acked", "late"}

\* The record update of InProgress / Success / Fail / Reject (under je.mux).
StatusOf(kind) ==
    CASE kind = "InProgress" -> "IN_PROGRESS"
      [] kind = "Success" -> "SUCCEEDED"
      [] kind = "Fail" -> "FAILED"
      [] kind = "Reject" -> "REJECTED"

DetailsOf(kind, arg) ==
    IF kind \in {"InProgress", "Success"} THEN Details(arg, "")
    ELSE Details("", ErrorText(arg))

SetRecord(e, kind, arg) ==
    [e EXCEPT !.Status = StatusOf(kind), !.StatusDetails = DetailsOf(kind, arg)]

\* Success, Fail and Reject unsubscribe after sendUpdate returned no error.
Releases(kind, outcome) ==
    kind \in {"Success", "Fail", "Reject"} /\ ~sendUpdateErr(outcome)

\* Variant: the echo's versionNumber is not stored.
updateHandlerKeepsVersion(e, echo) ==
    [e EXCEPT !.StatusDetails = echo.details]

updateHandler(e, echo) ==
    [e EXCEPT !.VersionNumber = echo.version, !.StatusDetails = echo.details]

\* First half of a Reporter call made by slot s: the events before it, the
\* locked record update, and the pending sendUpdate.
ReporterCall(s, before, kind, arg, after, r) ==
    /\ je' = [je EXCEPT ![s] = SetRecord(@, kind, arg)]
    /\ calls' = [calls EXCEPT ![s] = (@ \o before) \o <<Ev(kind, arg, "", 0)>>]
    /\ sending' = [sending EXCEPT ![s] = [kind |-> kind, after |-> after, ret |-> r]]
    /\ pc' = [pc EXCEPT ![s] = "send"]


\* Variant: the caller gives up when sendUpdate returned an error.
SendUpdateStopsOnError(s) ==
    /\ pc[s] = "send"
    /\ \E o \in PubOutcomes :
         LET p == getUpdatePayload(je[s])
             j == je[s].JobID
             accepted == Delivered(o) /\ ServiceAccepts(svc[j], p)
             rec == ServiceApply(svc[j], p)
         IN /\ calls' = [calls EXCEPT ![s] =
                   Append(@, Ev("publish", p.status, p.statusDetails, p.expectedVersion))]
            /\ svc' = IF accepted THEN [svc EXCEPT ![j] = rec] ELSE svc
            /\ echoQ' = IF accepted THEN Append(echoQ, EchoOf(j, rec)) ELSE echoQ
            /\ echoSub' = IF Releases(sending[s].kind, o) THEN NoSlot ELSE echoSub
            /\ sent' = [sent EXCEPT ![s] = [kind |-> sending[s].kind, outcome |-> o,
                                             err |-> sendUpdateErr(o)]]
            /\ pc' = [pc EXCEPT ![s] = IF sendUpdateErr(o) THEN "done"
                                       ELSE sending[s].after]
    /\ ret' = [ret EXCEPT ![s] = IF sending[s].ret = "" THEN @ ELSE sending[s].ret]
    /\ sending' = [sending EXCEPT ![s] = NoSending]
    /\ UNCHANGED <<agent, clientSubs, startNext, je, job, upd, nprog, timer,
                   elapsed, napi, boot>>

\* Second half: sendUpdate (payload, publish, bounded wait), then for the
\* terminal calls unsubscribeFromUpdates.
SendUpdate(s) ==
    /\ pc[s] = "send"
    /\ \E o \in PubOutcomes :
         LET p == getUpdatePayload(je[s])
             j == je[s].JobID
             accepted == Delivered(o) /\ ServiceAccepts(svc[j], p)
             rec == ServiceApply(svc[j], p)
         IN /\ calls' = [calls EXCEPT ![s] =
                   Append(@, Ev("publish", p.status, p.statusDetails, p.expectedVersion))]
            /\ svc' = IF accepted THEN [svc EXCEPT ![j] = rec] ELSE svc
            /\ echoQ' = IF accepted THEN Append(echoQ, EchoOf(j, rec)) ELSE echoQ
            /\ echoSub' = IF Releases(sending[s].kind, o) THEN NoSlot ELSE echoSub
            /\ sent' = [sent EXCEPT ![s] = [kind |-> sending[s].kind, outcome |-> o,
                                             err |-> sendUpdateErr(o)]]
    /\ pc' = [pc EXCEPT ![s] = sending[s].after]
    /\ ret' = [ret EXCEPT ![s] = IF sending[s].ret = "" THEN @ ELSE sending[s].ret]
    /\ sending' = [sending EXCEPT ![s] = NoSending]
    /\ UNCHANGED <<agent, clientSubs, startNext, je, job, upd, nprog, timer,
                   elapsed, napi, boot>>

\* An accepted echo reaches the handler bound to +/update/accepted, if any.
EchoDeliver ==
    /\ echoQ # <<>>
    /\ echoQ' = Tail(echoQ)
    /\ IF echoSub = NoSlot
       THEN UNCHANGED <<je, calls>>
       ELSE /\ je' = [je EXCEPT ![echoSub] = updateHandler(@, Head(echoQ))]
            /\ calls' = [calls EXCEPT ![echoSub] =
                   Append(@, Ev("echo", Head(echoQ).job, Head(echoQ).details,
                                Head(echoQ).version))]
    /\ UNCHANGED <<agent, clientSubs, startNext, svc, echoSub, pc, job, sending,
                   ret, upd, nprog, timer, elapsed, napi, sent, boot>>

\* ------------------------------------------------ awsiotjobs: Client
\* Client.subscribe: the five subscriptions, in the order they are issued.
subscribe ==
    << "Subscribe notify-next", "Subscribe +/get/accepted",
       "Subscribe +/get/rejected", "Subscribe start-next/accepted",
       "Subscribe start-next/rejected" >>

\* Variant: the start-next request is published before subscribing.
StartupCallsPublishFirst(connected) ==
    IF connected THEN (<<"Connect", "Publish start-next">> \o subscribe)
    ELSE <<"Connect">>

\* The transport calls of ConnectAndSubscribe: it panics if Connect failed.
StartupCalls(connected) ==
    IF connected THEN (<<"Connect">> \o subscribe) \o <<"Publish start-next">>
    ELSE <<"Connect">>

ConnectAndSubscribe ==
    /\ agent = "init"
    /\ \E connected \in BOOLEAN :
         /\ boot' = boot \o StartupCalls(connected)
         /\ IF connected
            THEN /\ agent' = "running"
                 /\ clientSubs' = TRUE
                 /\ startNext' = startNext + 1
            ELSE /\ agent' = "panicked"
                 /\ UNCHANGED <<clientSubs, startNext>>
    /\ UNCHANGED <<svc, echoQ, echoSub, pc, je, job, sending, ret, upd, nprog,
                   timer, elapsed, calls, napi, sent>>

\* Variant: jobHandler does not return on the parse error.
JobHandlerIgnoreNoReturn(s) ==
    /\ agent = "running" /\ clientSubs
    /\ pc[s] = "idle"
    /\ parseJobMessageErr(NotAJob)
    /\ je' = [je EXCEPT ![s] = parseJobMessage(NotAJob)]
    /\ echoSub' = s
    /\ pc' = [pc EXCEPT ![s] = "handler"]
    /\ UNCHANGED <<agent, clientSubs, startNext, svc, echoQ, job, sending, ret,
                   upd, nprog, timer, elapsed, calls, napi, sent, boot>>

\* jobHandler on an envelope without an execution section.
JobHandlerIgnore(s) ==
    /\ agent = "running" /\ clientSubs
    /\ pc[s] = "idle"
    /\ parseJobMessageErr(NotAJob)
    /\ pc' = [pc EXCEPT ![s] = "ignored"]
    /\ UNCHANGED <<agent, clientSubs, startNext, svc, echoQ, echoSub, je, job,
                   sending, ret, upd, nprog, timer, elapsed, calls, napi, sent, boot>>

\* jobHandler calling Handler(job) in its own goroutine's place: the next
\* envelope is taken only when no earlier session is still running.
JobHandlerFromBlocking(s, first) ==
    /\ agent = "running" /\ clientSubs
    /\ pc[s] = "idle"
    /\ \A t \in Slots \ {s} : pc[t] \in {"idle", "ignored", "done"}
    /\ \E j \in JobIds : \E rec \in (Resolve(svc[j]) \cap ({svc[j]} \cup first)) :
         /\ rec.status \notin Terminal
         /\ ~parseJobMessageErr(EnvelopeOf(j, rec))
         /\ svc' = [svc EXCEPT ![j] = rec]
         /\ je' = [je EXCEPT ![s] = parseJobMessage(EnvelopeOf(j, rec))]
         /\ calls' = [calls EXCEPT ![s] =
                Append(@, Ev("envelope", j, rec.details, rec.version))]
    /\ echoSub' = s
    /\ pc' = [pc EXCEPT ![s] = "handler"]
    /\ UNCHANGED <<agent, clientSubs, startNext, echoQ, job, sending, ret, upd,
                   nprog, timer, elapsed, napi, sent, boot>>

\* jobHandler on the envelope of a pending job: parse, subscribeToUpdates,
\* go Handler(job). A job delivered for the first time has one of `first`.
JobHandlerFrom(s, first) ==
    /\ agent = "running" /\ clientSubs
    /\ pc[s] = "idle"
    /\ \E j \in JobIds : \E rec \in (Resolve(svc[j]) \cap ({svc[j]} \cup first)) :
         /\ rec.status \notin Terminal
         /\ ~parseJobMessageErr(EnvelopeOf(j, rec))
         /\ svc' = [svc EXCEPT ![j] = rec]
         /\ je' = [je EXCEPT ![s] = parseJobMessage(EnvelopeOf(j, rec))]
         /\ calls' = [calls EXCEPT ![s] =
                Append(@, Ev("envelope", j, rec.details, rec.version))]
    /\ echoSub' = s
    /\ pc' = [pc EXCEPT ![s] = "handler"]
    /\ UNCHANGED <<agent, clientSubs, startNext, echoQ, job, sending, ret, upd,
                   nprog, timer, elapsed, napi, sent, boot>>

JobHandler(s) == JobHandlerFrom(s, FirstRecords)

\* ------------------------------------------------ mender: Process, exec
\* parseJobDocument: the error code ("" for none) and the decoded Job.
parseJobDocumentErr(e) ==
    CASE e.JobDocument.operation = "mender_install" ->
            IF e.JobDocument.url = "" THEN "ERR_MENDER_MISSING_URL" ELSE ""
      [] e.JobDocument.operation = "mender_rollback" -> ""
      [] OTHER -> "ERR_JOB_INVALID_OPERATION"

parseJobDocument(e) ==
    [Operation |-> e.JobDocument.operation, URL |-> e.JobDocument.url,
     Step |-> IF parseJobDocumentErr(e) = "" THEN e.StatusDetails.step ELSE ""]

\* Variant: no case of the switch rejects.
ProcessRejectsNothing(code) == FALSE

\* Process's switch on the error code: only this case has a body.
ProcessRejects(code) == code = "ERR_JOB_INVALID_OPERATION"

\* Variant: the persisted step is not consulted, every install starts afresh.
ExecBranchNoResume(j) ==
    CASE j.Operation = "mender_install" -> "install"
      [] j.Operation = "mender_rollback" -> "rollback"
      [] OTHER -> "none"

\* Variant: the test of the persisted step is inverted.
ExecBranchInverted(j) ==
    CASE j.Operation = "mender_install" /\ j.Step # "rebooting" -> "resume"
      [] j.Operation = "mender_install" -> "install"
      [] j.Operation = "mender_rollback" -> "rollback"
      [] OTHER -> "none"


\* Variant: an install that was interrupted is taken for one that rebooted.
ExecBranchResumesInstalling(j) ==
    CASE j.Operation = "mender_install" /\ j.Step \in {"rebooting", "installing"}
           -> "resume"
      [] j.Operation = "mender_install" -> "install"
      [] j.Operation = "mender_rollback" -> "rollback"
      [] OTHER -> "none"

\* The branch Job.exec takes.
ExecBranch(j) ==
    CASE j.Operation = "mender_install" /\ j.Step = "rebooting" -> "resume"
      [] j.Operation = "mender_install" -> "install"
      [] j.Operation = "mender_rollback" -> "rollback"
      [] OTHER -> "none"

\* reportProgress: the text goes to mender/<thing>/job/<jobId>/progress.
reportProgress(s, p) == Ev("monitor", p, je[s].JobID, 0)

Process(s) ==
    /\ pc[s] = "handler"
    /\ job' = [job EXCEPT ![s] = parseJobDocument(je[s])]
    /\ LET code == parseJobDocumentErr(je[s])
       IN IF code = ""
          THEN /\ pc' = [pc EXCEPT ![s] = "exec"]
               /\ calls' = [calls EXCEPT ![s] =
                      Append(@, Ev("exec", job'[s].Operation, job'[s].Step, 0))]
               /\ UNCHANGED <<je, sending>>
          ELSE IF ProcessRejects(code)
          THEN ReporterCall(s, <<>>, "Reject", code, "done", "")
          ELSE /\ pc' = [pc EXCEPT ![s] = "done"]
               /\ UNCHANGED <<je, calls, sending>>
    /\ UNCHANGED <<agent, clientSubs, startNext, svc, echoQ, echoSub, ret, upd,
                   nprog, timer, elapsed, napi, sent, boot>>

\* The resume branch as the README tells it: a failed Commit is followed by
\* Rollback before the job is reported failed.
ExecResumeRollsBack(s) ==
    /\ pc[s] = "exec"
    /\ ExecBranch(job[s]) = "resume"
    /\ \E committed \in BOOLEAN :
         IF committed
         THEN /\ job' = [job EXCEPT ![s].Step = "committed"]
              /\ ReporterCall(s, <<reportProgress(s, "rebooted"),
                                   Ev("Commit", "ok", "", 0)>>,
                              "Success", "committed", "done", "nil")
         ELSE /\ job' = job
              /\ ReporterCall(s, <<reportProgress(s, "rebooted"),
                                   Ev("Commit", "error", "", 0),
                                   Ev("Rollback", "ok", "", 0)>>,
                              "Fail", "ERR_MENDER_COMMIT", "done",
                              "ERR_MENDER_COMMIT")
    /\ UNCHANGED <<agent, clientSubs, startNext, svc, echoQ, echoSub, ret, upd,
                   nprog, timer, elapsed, napi, sent, boot>>


\* Variant: the resume branch commits without announcing "rebooted".
ExecResumeSilent(s) ==
    /\ pc[s] = "exec"
    /\ ExecBranch(job[s]) = "resume"
    /\ \E committed \in BOOLEAN :
         IF committed
         THEN /\ job' = [job EXCEPT ![s].Step = "committed"]
              /\ ReporterCall(s, <<Ev("Commit", "ok", "", 0)>>,
                              "Success", "committed", "done", "nil")
         ELSE /\ job' = job
              /\ ReporterCall(s, <<Ev("Commit", "error", "", 0)>>,
                              "Fail", "ERR_MENDER_COMMIT", "done",
                              "ERR_MENDER_COMMIT")
    /\ UNCHANGED <<agent, clientSubs, startNext, svc, echoQ, echoSub, ret, upd,
                   nprog, timer, elapsed, napi, sent, boot>>

\* install, step "rebooting": reportProgress("rebooted"), Commit, then the
\* record update of Success or Fail.
ExecResume(s) ==
    /\ pc[s] = "exec"
    /\ ExecBranch(job[s]) = "resume"
    /\ \E committed \in BOOLEAN :
         LET before == <<reportProgress(s, "rebooted"),
                         Ev("Commit", IF committed THEN "ok" ELSE "error", "", 0)>>
         IN IF committed
            THEN /\ job' = [job EXCEPT ![s].Step = "committed"]
                 /\ ReporterCall(s, before, "Success", "committed", "done", "nil")
            ELSE /\ job' = job
                 /\ ReporterCall(s, before, "Fail", "ERR_MENDER_COMMIT", "done",
                                 "ERR_MENDER_COMMIT")
    /\ UNCHANGED <<agent, clientSubs, startNext, svc, echoQ, echoSub, ret, upd,
                   nprog, timer, elapsed, napi, sent, boot>>

\* install, any other step: progress("installing").
ExecInstall(s) ==
    /\ pc[s] = "exec"
    /\ ExecBranch(job[s]) = "install"
    /\ job' = [job EXCEPT ![s].Step = "installing"]
    /\ ReporterCall(s, <<>>, "InProgress", "installing", "install", "")
    /\ UNCHANGED <<agent, clientSubs, startNext, svc, echoQ, echoSub, ret, upd,
                   nprog, timer, elapsed, napi, sent, boot>>

\* go cmd.Install(mj.URL, done, ch), then the first select with its timer.
StartInstall(s) ==
    /\ pc[s] = "install"
    /\ upd' = [upd EXCEPT ![s] = "running"]
    /\ calls' = [calls EXCEPT ![s] = Append(@, Ev("Install", job[s].URL, "", 0))]
    /\ timer' = [timer EXCEPT ![s] = 0]
    /\ elapsed' = [elapsed EXCEPT ![s] = 0]
    /\ pc' = [pc EXCEPT ![s] = "select"]
    /\ UNCHANGED <<agent, clientSubs, startNext, svc, echoQ, echoSub, je, job,
                   sending, ret, nprog, napi, sent, boot>>

\* What the timer of the next loop iteration shows after a progress line:
\* time.After(timeout) is evaluated anew by every select.
TimerAfterProgress(t) == 0

\* Variant: the line is also reported to the service, as the step of an
\* InProgress call.
SelectProgressAsStep(s) ==
    /\ pc[s] = "select"
    /\ upd[s] = "sendProgress"
    /\ upd' = [upd EXCEPT ![s] = "running"]
    /\ timer' = [timer EXCEPT ![s] = TimerAfterProgress(@)]
    /\ job' = [job EXCEPT ![s].Step = ProgressLine]
    /\ ReporterCall(s, <<reportProgress(s, ProgressLine)>>, "InProgress",
                    ProgressLine, "select", "")
    /\ UNCHANGED <<agent, clientSubs, startNext, svc, echoQ, echoSub, ret, nprog,
                   elapsed, napi, sent, boot>>

\* case progress := <-ch: reportProgress(progress), loop.
SelectProgress(s) ==
    /\ pc[s] = "select"
    /\ upd[s] = "sendProgress"
    /\ upd' = [upd EXCEPT ![s] = "running"]
    /\ calls' = [calls EXCEPT ![s] = Append(@, reportProgress(s, ProgressLine))]
    /\ timer' = [timer EXCEPT ![s] = TimerAfterProgress(@)]
    /\ UNCHANGED <<agent, clientSubs, startNext, svc, echoQ, echoSub, pc, je, job,
                   sending, ret, nprog, elapsed, napi, sent, boot>>

\* Variant: the error case does not return, the loop goes on.
SelectDoneErrNoReturn(s) ==
    /\ pc[s] = "select"
    /\ upd[s] = "sendErr"
    /\ upd' = [upd EXCEPT ![s] = "finished"]
    /\ ReporterCall(s, <<Ev("result", "error", "", 0)>>, "Fail",
                    "ERR_MENDER_INSTALL_FAILED", "select", "")
    /\ UNCHANGED <<agent, clientSubs, startNext, svc, echoQ, echoSub, job, ret,
                   nprog, timer, elapsed, napi, sent, boot>>


\* Variant: the error case falls through to the reboot goroutine.
SelectDoneErrReboots(s) ==
    /\ pc[s] = "select"
    /\ upd[s] = "sendErr"
    /\ upd' = [upd EXCEPT ![s] = "finished"]
    /\ ReporterCall(s, <<Ev("result", "error", "", 0)>>, "Fail",
                    "ERR_MENDER_INSTALL_FAILED", "reboot", "ERR_MENDER_INSTALL_FAILED")
    /\ UNCHANGED <<agent, clientSubs, startNext, svc, echoQ, echoSub, job, ret,
                   nprog, timer, elapsed, napi, sent, boot>>

\* case err := <-done with an error: Fail(ERR_MENDER_INSTALL_FAILED).
SelectDoneErr(s) ==
    /\ pc[s] = "select"
    /\ upd[s] = "sendErr"
    /\ upd' = [upd EXCEPT ![s] = "finished"]
    /\ ReporterCall(s, <<Ev("result", "error", "", 0)>>, "Fail",
                    "ERR_MENDER_INSTALL_FAILED", "done", "ERR_MENDER_INSTALL_FAILED")
    /\ UNCHANGED <<agent, clientSubs, startNext, svc, echoQ, echoSub, job, ret,
                   nprog, timer, elapsed, napi, sent, boot>>

\* case err := <-done with nil: progress("rebooting"); the reboot goroutine
\* is started once its sendUpdate returned, and exec returns nil.
SelectDoneOk(s) ==
    /\ pc[s] = "select"
    /\ upd[s] = "sendOk"
    /\ upd' = [upd EXCEPT ![s] = "finished"]
    /\ job' = [job EXCEPT ![s].Step = "rebooting"]
    /\ ReporterCall(s, <<Ev("result", "ok", "", 0)>>, "InProgress", "rebooting",
                    "reboot", "nil")
    /\ UNCHANGED <<agent, clientSubs, startNext, svc, echoQ, echoSub, ret, nprog,
                   timer, elapsed, napi, sent, boot>>




\* Variant: the timer case is ready only after the deadline has passed by
\* more than the clock allows a waiting select to see.
SelectTimeoutLate(s) ==
    /\ pc[s] = "select"
    /\ timer[s] > Timeout
    /\ ReporterCall(s, <<Ev("timeout", "", "", 0)>>, "Fail",
                    "ERR_MENDER_INSTALL_TIMEOUT", "done", "ERR_MENDER_INSTALL_TIMEOUT")
    /\ UNCHANGED <<agent, clientSubs, startNext, svc, echoQ, echoSub, job, ret,
                   upd, nprog, timer, elapsed, napi, sent, boot>>

\* Variant: the timeout case cancels the install task, which then ends.
SelectTimeoutCancels(s) ==
    /\ pc[s] = "select"
    /\ timer[s] >= Timeout
    /\ upd' = [upd EXCEPT ![s] = "finished"]
    /\ ReporterCall(s, <<Ev("timeout", "", "", 0)>>, "Fail",
                    "ERR_MENDER_INSTALL_TIMEOUT", "done", "ERR_MENDER_INSTALL_TIMEOUT")
    /\ UNCHANGED <<agent, clientSubs, startNext, svc, echoQ, echoSub, job, ret,
                   nprog, timer, elapsed, napi, sent, boot>>

\* Variant: the timeout case does not return, the loop goes on.
SelectTimeoutNoReturn(s) ==
    /\ pc[s] = "select"
    /\ timer[s] >= Timeout
    /\ ReporterCall(s, <<Ev("timeout", "", "", 0)>>, "Fail",
                    "ERR_MENDER_INSTALL_TIMEOUT", "select", "")
    /\ UNCHANGED <<agent, clientSubs, startNext, svc, echoQ, echoSub, job, ret,
                   upd, nprog, timer, elapsed, napi, sent, boot>>

\* case <-time.After(timeout): Fail(ERR_MENDER_INSTALL_TIMEOUT).
SelectTimeout(s) ==
    /\ pc[s] = "select"
    /\ timer[s] >= Timeout
    /\ ReporterCall(s, <<Ev("timeout", "", "", 0)>>, "Fail",
                    "ERR_MENDER_INSTALL_TIMEOUT", "done", "ERR_MENDER_INSTALL_TIMEOUT")
    /\ UNCHANGED <<agent, clientSubs, startNext, svc, echoQ, echoSub, job, ret,
                   upd, nprog, timer, elapsed, napi, sent, boot>>

\* Variant: the reboot goroutine ends without Terminate.
RebootNoTerminate(s) ==
    /\ pc[s] = "reboot"
    /\ \E ok \in BOOLEAN :
         IF ok
         THEN /\ calls' = [calls EXCEPT ![s] = Append(@, Ev("Reboot", "ok", "", 0))]
              /\ pc' = [pc EXCEPT ![s] = "done"]
              /\ UNCHANGED <<je, sending>>
         ELSE ReporterCall(s, <<Ev("Reboot", "failed", "", 0)>>, "Fail",
                           "ERROR_UNABLE_TO_REBOOT", "done", "")
    /\ UNCHANGED <<agent, clientSubs, startNext, svc, echoQ, echoSub, job, ret,
                   upd, nprog, timer, elapsed, napi, sent, boot>>

\* The reboot goroutine: shutdown -r now; on failure Fail, else Terminate.
Reboot(s) ==
    /\ pc[s] = "reboot"
    /\ \E ok \in BOOLEAN :
         IF ok
         THEN /\ calls' = [calls EXCEPT ![s] =
                     @ \o <<Ev("Reboot", "ok", "", 0), Ev("Terminate", "", "", 0)>>]
              /\ clientSubs' = FALSE
              /\ pc' = [pc EXCEPT ![s] = "done"]
              /\ UNCHANGED <<je, sending>>
         ELSE /\ ReporterCall(s, <<Ev("Reboot", "failed", "", 0)>>, "Fail",
                              "ERROR_UNABLE_TO_REBOOT", "done", "")
              /\ UNCHANGED clientSubs
    /\ UNCHANGED <<agent, startNext, svc, echoQ, echoSub, job, ret, upd, nprog,
                   timer, elapsed, napi, sent, boot>>

\* The rollback branch without its error check: Success("rolled_back")
\* whatever Rollback returned.
ExecRollbackIgnoresError(s) ==
    /\ pc[s] = "exec"
    /\ ExecBranch(job[s]) = "rollback"
    /\ \E ok \in BOOLEAN :
         /\ job' = [job EXCEPT ![s].Step = "rolled_back"]
         /\ ReporterCall(s, <<Ev("Rollback", IF ok THEN "ok" ELSE "error", "", 0)>>,
                         "Success", "rolled_back", "done", "nil")
    /\ UNCHANGED <<agent, clientSubs, startNext, svc, echoQ, echoSub, ret, upd,
                   nprog, timer, elapsed, napi, sent, boot>>

\* mender_rollback: Rollback, then Success("rolled_back") or Fail.
ExecRollback(s) ==
    /\ pc[s] = "exec"
    /\ ExecBranch(job[s]) = "rollback"
    /\ \E ok \in BOOLEAN :
         LET before == <<Ev("Rollback", IF ok THEN "ok" ELSE "error", "", 0)>>
         IN IF ok
            THEN /\ job' = [job EXCEPT ![s].Step = "rolled_back"]
                 /\ ReporterCall(s, before, "Success", "rolled_back", "done", "nil")
            ELSE /\ job' = job
                 /\ ReporterCall(s, before, "Fail", "ERR_MENDER_ROLLBACK_FAIL",
                                 "done", "rollback error")
    /\ UNCHANGED <<agent, clientSubs, startNext, svc, echoQ, echoSub, ret, upd,
                   nprog, timer, elapsed, napi, sent, boot>>

\* ------------------------------------------------ mendercmd: execMender
\* The scanner read a line: the task blocks sending it on the progress channel.
UpdaterProgress(s) ==
    /\ upd[s] = "running"
    /\ nprog[s] < MaxProgress
    /\ upd' = [upd EXCEPT ![s] = "sendProgress"]
    /\ nprog' = [nprog EXCEPT ![s] = @ + 1]
    /\ UNCHANGED <<agent, clientSubs, startNext, svc, echoQ, echoSub, pc, je, job,
                   sending, ret, timer, elapsed, calls, napi, sent, boot>>

\* mender exited: the task blocks sending cmd.Wait()'s result on done.
UpdaterExit(s) ==
    /\ upd[s] = "running"
    /\ \E r \in {"sendOk", "sendErr"} : upd' = [upd EXCEPT ![s] = r]
    /\ UNCHANGED <<agent, clientSubs, startNext, svc, echoQ, echoSub, pc, je, job,
                   sending, ret, nprog, timer, elapsed, calls, napi, sent, boot>>

\* ------------------------------------------------ time
Waiting == {s \in Slots : pc[s] = "select"}

\* A tick of the clock while some session waits in its select. A timer that
\* has expired is served (or another ready case is taken) before time moves on.
Tick ==
    /\ Waiting # {}
    /\ \A s \in Waiting : timer[s] < Timeout
    /\ timer' = [s \in Slots |-> IF s \in Waiting THEN timer[s] + 1 ELSE timer[s]]
    /\ elapsed' = [s \in Slots |-> IF s \in Waiting THEN elapsed[s] + 1 ELSE elapsed[s]]
    /\ UNCHANGED <<agent, clientSubs, startNext, svc, echoQ, echoSub, pc, je, job,
                   sending, ret, upd, nprog, calls, napi, sent, boot>>

\* ------------------------------------------------ a generic Handler
\* Config.Handler is any function of the JobExecutioner: this one makes an
\* arbitrary sequence of Reporter calls.
ApiStart(s) ==
    /\ pc[s] = "handler"
    /\ pc' = [pc EXCEPT ![s] = "api"]
    /\ UNCHANGED <<agent, clientSubs, startNext, svc, echoQ, echoSub, je, job,
                   sending, ret, upd, nprog, timer, elapsed, calls, napi, sent, boot>>

ApiArgs(kind) ==
    IF kind \in {"InProgress", "Success"} THEN {"installing", "committed"}
    ELSE {"ERR_MENDER_COMMIT"}

ApiCall(s) ==
    /\ pc[s] = "api"
    /\ napi[s] < MaxApiCalls
    /\ napi' = [napi EXCEPT ![s] = @ + 1]
    /\ \E kind \in {"InProgress", "Success", "Fail", "Reject"} :
         \E arg \in ApiArgs(kind) : ReporterCall(s, <<>>, kind, arg, "api", "")
    /\ UNCHANGED <<agent, clientSubs, startNext, svc, echoQ, echoSub, job, ret,
                   upd, nprog, timer, elapsed, sent, boot>>

\* ------------------------------------------------ specifications
Session(s) ==
    \/ Process(s)
    \/ ExecResume(s)
    \/ ExecInstall(s)
    \/ StartInstall(s)
    \/ SelectProgress(s)
    \/ SelectDoneErr(s)
    \/ SelectDoneOk(s)
    \/ SelectTimeout(s)
    \/ Reboot(s)
    \/ ExecRollback(s)
    \/ SendUpdate(s)
    \/ UpdaterProgress(s)
    \/ UpdaterExit(s)

\* The agent with mender.Process as its Handler, one envelope delivered.
Next ==
    \/ ConnectAndSubscribe
    \/ JobHandlerIgnore("s1")
    \/ JobHandler("s1")
    \/ \E s \in Slots : Session(s)
    \/ EchoDeliver
    \/ Tick

Spec == Init /\ [][Next]_vars


\* The steps of a session's own goroutines: a runnable goroutine is run, a
\* ready case of the select is taken, a publish returns within its bounded
\* wait. The Updater owes nothing: it may stay silent for ever.
Proceed(s) ==
    \/ Process(s)
    \/ ExecResume(s)
    \/ ExecInstall(s)
    \/ StartInstall(s)
    \/ SelectProgress(s)
    \/ SelectDoneErr(s)
    \/ SelectDoneOk(s)
    \/ SelectTimeout(s)
    \/ Reboot(s)
    \/ ExecRollback(s)
    \/ SendUpdate(s)

\* Spec with the scheduler's fairness and a clock that keeps running.
LiveSpec ==
    /\ Spec
    /\ WF_vars(Tick)
    /\ \A s \in Slots : WF_vars(Proceed(s))

\* A JobExecution driven by a generic Handler.
NextReporter ==
    \/ ConnectAndSubscribe
    \/ JobHandler("s1")
    \/ \E s \in Slots : ApiStart(s) \/ ApiCall(s) \/ SendUpdate(s)
    \/ EchoDeliver

ReporterSpec == Init /\ [][NextReporter]_vars

\* The agent with mender.Process as its Handler and two envelopes delivered,
\* each for a fresh, well-formed install job; the installs emit no progress
\* line and end before their deadline, and the sessions are followed up to
\* the start of the reboot goroutine.
InstallRecords ==
    {r \in FirstRecords :
        /\ r.doc = [operation |-> "mender_install", url |-> "http://test"]
        /\ r.details.step = ""}

SessionMulti(s) ==
    \/ Process(s)
    \/ ExecInstall(s)
    \/ StartInstall(s)
    \/ SelectDoneErr(s)
    \/ SelectDoneOk(s)
    \/ SendUpdate(s)
    \/ UpdaterExit(s)

NextMulti ==
    \/ ConnectAndSubscribe
    \/ \E s \in Slots : JobHandlerFrom(s, InstallRecords) \/ SessionMulti(s)
    \/ EchoDeliver

MultiSpec == Init /\ [][NextMulti]_vars


\* The agent across a reboot. The session of slot s has rebooted the machine
\* when its reboot goroutine got as far as Terminate.
Rebooted(s) ==
    /\ pc[s] = "done"
    /\ \E i \in 1..Len(calls[s]) : calls[s][i].op = "Terminate"

\* shutdown -r now took effect: the process ends with all its goroutines and
\* its connection, and main() is started anew. Nothing is kept on the device.
Restart ==
    /\ agent = "running" /\ ~clientSubs
    /\ \E s \in Slots : Rebooted(s)
    /\ \E t \in Slots : pc[t] = "idle"
    /\ agent' = "init"
    /\ clientSubs' = FALSE
    /\ echoQ' = <<>>
    /\ echoSub' = NoSlot
    /\ UNCHANGED <<startNext, svc, pc, je, job, sending, ret, upd, nprog, timer,
                   elapsed, calls, napi, sent, boot>>

\* After the restart the service delivers the job again, as it recorded it.
Redeliver(t) ==
    /\ \E s \in Slots : Rebooted(s)
    /\ JobHandlerFrom(t, {})

\* One fresh install job delivered, and delivered again after the reboot;
\* the installs emit no progress line and end before their deadline.
SessionRestart(s) ==
    \/ SessionMulti(s)
    \/ Reboot(s)
    \/ ExecResume(s)

NextRestart ==
    \/ ConnectAndSubscribe
    \/ JobHandlerFrom("s1", InstallRecords)
    \/ Redeliver("s2")
    \/ \E s \in Slots : SessionRestart(s)
    \/ EchoDeliver
    \/ Restart

RestartSpec == Init /\ [][NextRestart]_vars

\* ------------------------------------------------ reading a slot's trace
Idx(s) == 1..Len(calls[s])
Has(s, op) == \E i \in Idx(s) : calls[s][i].op = op
HasEv(s, op, a) == \E i \in Idx(s) : calls[s][i].op = op /\ calls[s][i].a = a
Count(s, ops) == Cardinality({i \in Idx(s) : calls[s][i].op \in ops})

TerminalCalls == {"Success", "Fail", "Reject"}
ReporterCalls == TerminalCalls \cup {"InProgress"}
UpdaterCalls == {"Install", "Commit", "Rollback"}

\* Job.exec was entered with this operation and persisted step.
Entered(s, operation, step) ==
    \E i \in Idx(s) : calls[s][i] = Ev("exec", operation, step, 0)

\* Job.exec has taken its branch (it is past the switch).
Branched(s) == Has(s, "exec") /\ pc[s] # "exec"

\* The trace of a slot reduced to the events an ordering claim speaks of.
RECURSIVE Shape(_)
Shape(q) ==
    IF q = <<>> THEN <<>>
    ELSE IF Head(q).op \in {"envelope", "exec", "echo", "monitor", "timeout"}
         THEN Shape(Tail(q))
         ELSE <<<<Head(q).op, Head(q).a>>>> \o Shape(Tail(q))

IsPrefix(p, q) == Len(p) <= Len(q) /\ SubSeq(q, 1, Len(p)) = p

\* ------------------------------------------------ claims
\* C1: a mender_install job whose persisted step is "rebooting" makes
\* Job.exec call Commit and never Install, whatever Commit returns.
C1_ResumeCommits ==
    \A s \in Slots :
        Entered(s, "mender_install", "rebooting") =>
            /\ ~Has(s, "Install")
            /\ Branched(s) => Count(s, {"Commit"}) = 1

C1_Witness ==
    \E s \in Slots :
        /\ Entered(s, "mender_install", "rebooting")
        /\ pc[s] = "done"
        /\ HasEv(s, "Fail", "ERR_MENDER_COMMIT")

\* C2: a mender_install job whose persisted step is "" makes Job.exec call
\* Install with the job's URL and never Commit, on every outcome of the
\* install (success, error, timeout).
InstallStarted(s) ==
    \/ pc[s] \in {"select", "reboot", "done"}
    \/ pc[s] = "send" /\ sending[s].after # "install"

C2_FreshInstalls ==
    \A s \in Slots :
        Entered(s, "mender_install", "") =>
            /\ ~Has(s, "Commit")
            /\ \A i \in Idx(s) : calls[s][i].op = "Install" =>
                   calls[s][i].a = je[s].JobDocument.url /\ calls[s][i].a # ""
            /\ InstallStarted(s) => Count(s, {"Install"}) = 1

C2_Witness ==
    \E s \in Slots :
        /\ Entered(s, "mender_install", "")
        /\ pc[s] = "done"
        /\ HasEv(s, "Install", "http://test")
        /\ HasEv(s, "Fail", "ERR_MENDER_INSTALL_TIMEOUT")

\* C3 (as stated): a fresh install that succeeds reports
\* InProgress(installing), starts Install, then after the success result
\* reports InProgress(rebooting), invokes the reboot trigger and calls
\* Terminate; no terminal status is reported in that session.
RebootedShape(url) ==
    << <<"InProgress", "installing">>, <<"publish", "IN_PROGRESS">>,
       <<"Install", url>>, <<"result", "ok">>,
       <<"InProgress", "rebooting">>, <<"publish", "IN_PROGRESS">>,
       <<"Reboot", "ok">>, <<"Terminate", "">> >>

RebootFailedShape(url) ==
    << <<"InProgress", "installing">>, <<"publish", "IN_PROGRESS">>,
       <<"Install", url>>, <<"result", "ok">>,
       <<"InProgress", "rebooting">>, <<"publish", "IN_PROGRESS">>,
       <<"Reboot", "failed">>, <<"Fail", "ERROR_UNABLE_TO_REBOOT">>,
       <<"publish", "FAILED">> >>

C3_AlwaysTerminates ==
    \A s \in Slots :
        HasEv(s, "result", "ok") =>
            /\ IsPrefix(Shape(calls[s]), RebootedShape(je[s].JobDocument.url))
            /\ pc[s] = "done" =>
                   Shape(calls[s]) = RebootedShape(je[s].JobDocument.url)

\* C3 (amended): the same order up to the reboot trigger; if the reboot
\* command succeeds Terminate follows and no terminal status is reported, and
\* if it fails Fail(ERROR_UNABLE_TO_REBOOT) is reported and Terminate is not
\* called.
C3_SuccessOrder ==
    \A s \in Slots :
        HasEv(s, "result", "ok") =>
            LET u == je[s].JobDocument.url
            IN /\ \/ IsPrefix(Shape(calls[s]), RebootedShape(u))
                  \/ IsPrefix(Shape(calls[s]), RebootFailedShape(u))
               /\ pc[s] = "done" =>
                      Shape(calls[s]) \in {RebootedShape(u), RebootFailedShape(u)}

C3_Witness ==
    \E s \in Slots :
        /\ pc[s] = "done"
        /\ Entered(s, "mender_install", "")
        /\ Shape(calls[s]) = RebootedShape("http://test")

\* C4 (as stated): the install deadline is a hard cutover counted from the
\* start of the install: whatever progress lines arrived, no session is
\* still waiting for its install once the deadline has elapsed, and a
\* session that timed out reported Fail(ERR_MENDER_INSTALL_TIMEOUT) once.
C4_HardDeadline ==
    \A s \in Slots :
        /\ pc[s] = "select" => elapsed[s] <= Timeout
        /\ Has(s, "timeout") =>
              /\ elapsed[s] = Timeout
              /\ Count(s, TerminalCalls) = 1
              /\ HasEv(s, "Fail", "ERR_MENDER_INSTALL_TIMEOUT")

\* C5: a terminal error of Install makes the session call Fail exactly once
\* with ERR_MENDER_INSTALL_FAILED, Job.exec returns that JobError, and
\* neither the reboot trigger nor InProgress(rebooting) nor Terminate
\* happens in that session.
C5_InstallError ==
    \A s \in Slots :
        HasEv(s, "result", "error") =>
            /\ pc[s] \in {"send", "done"}
            /\ Count(s, TerminalCalls) = 1
            /\ HasEv(s, "Fail", "ERR_MENDER_INSTALL_FAILED")
            /\ ~Has(s, "Reboot")
            /\ ~Has(s, "Terminate")
            /\ ~HasEv(s, "InProgress", "rebooting")
            /\ pc[s] = "done" =>
                  /\ ret[s] = "ERR_MENDER_INSTALL_FAILED"
                  /\ Count(s, {"publish"}) = 2
                  /\ calls[s][Len(calls[s])].op \in {"publish", "echo"}

C5_Witness ==
    \E s \in Slots :
        /\ HasEv(s, "result", "error")
        /\ pc[s] = "done"
        /\ ret[s] = "ERR_MENDER_INSTALL_FAILED"

\* C6 (as stated): a mender_install job without url yields
\* ERR_MENDER_MISSING_URL, and Process calls Reject exactly once and no
\* Updater method.
MissingUrl(s) ==
    /\ je[s].JobDocument.operation = "mender_install"
    /\ je[s].JobDocument.url = ""

C6_MissingUrlRejected ==
    \A s \in Slots :
        (pc[s] \in {"exec", "send", "done"} /\ MissingUrl(s)) =>
            /\ parseJobDocumentErr(je[s]) = "ERR_MENDER_MISSING_URL"
            /\ Count(s, {"Reject"}) = 1
            /\ Count(s, UpdaterCalls) = 0

\* C7: a job document whose operation is missing or is neither
\* mender_install nor mender_rollback makes Process call Reject exactly once
\* with ERR_JOB_INVALID_OPERATION (not the missing-url code) and no Updater
\* method.
InvalidOperation(s) ==
    /\ pc[s] \notin {"idle", "ignored"}
    /\ je[s].JobDocument.operation \notin {"mender_install", "mender_rollback"}

C7_InvalidOperationRejected ==
    \A s \in Slots :
        InvalidOperation(s) =>
            /\ Count(s, UpdaterCalls) = 0
            /\ pc[s] \in {"handler", "send", "done"}
            /\ pc[s] # "handler" =>
                  /\ Count(s, ReporterCalls) = 1
                  /\ HasEv(s, "Reject", "ERR_JOB_INVALID_OPERATION")
                  /\ ~HasEv(s, "Reject", "ERR_MENDER_MISSING_URL")
            /\ pc[s] = "done" =>
                  /\ Count(s, {"publish"}) = 1
                  /\ HasEv(s, "publish", "REJECTED")

C7_Witness ==
    \E s \in Slots :
        /\ InvalidOperation(s)
        /\ je[s].JobDocument.operation = "mender_insll"
        /\ pc[s] = "done"
        /\ HasEv(s, "Reject", "ERR_JOB_INVALID_OPERATION")

\* The events that set a record's VersionNumber: the envelope it was decoded
\* from and every echo its updateHandler processed.
SyncEvents == {"envelope", "echo"}

\* Event i is the last one before k that set the tracked version.
LastSync(s, i, k) ==
    /\ i < k
    /\ calls[s][i].op \in SyncEvents
    /\ \A m \in Idx(s) : (i < m /\ m < k) => calls[s][m].op \notin SyncEvents

\* C8: every status publish carries the locally tracked versionNumber as
\* expectedVersion: the one of the envelope, or of the last echo processed
\* since; so a publish with N, then an echo with N+1, makes the next
\* publish carry N+1.
C8_VersionRoundTrip ==
    \A s \in Slots : \A k \in Idx(s) :
        calls[s][k].op = "publish" =>
            \E i \in Idx(s) : LastSync(s, i, k) /\ calls[s][k].v = calls[s][i].v

C8_Witness ==
    \E s \in Slots : \E i, k, m \in Idx(s) :
        /\ i < k /\ LastSync(s, k, m)
        /\ calls[s][i].op = "publish"
        /\ calls[s][k].op = "echo" /\ calls[s][k].a = je[s].JobID
        /\ calls[s][k].v = calls[s][i].v + 1
        /\ calls[s][m].op = "publish"
        /\ calls[s][m].v = calls[s][i].v + 1

\* C9 (as stated): between two status publishes of a job the echo of the
\* first has been processed, so no two publishes of a job carry the same
\* expectedVersion.
C9_ResyncBeforePublish ==
    \A s \in Slots : \A i, k \in Idx(s) :
        (i < k /\ calls[s][i].op = "publish" /\ calls[s][k].op = "publish") =>
            /\ \E m \in Idx(s) : i < m /\ m < k /\ calls[s][m].op = "echo"
            /\ calls[s][i].v # calls[s][k].v

\* C10 (as stated): once a terminal status is latched, a further call to
\* Success, Fail or Reject publishes no status message.
C10_TerminalIdempotent ==
    \A s \in Slots : \A i, k, m \in Idx(s) :
        ~ /\ i < k /\ k < m
          /\ calls[s][i].op \in TerminalCalls
          /\ calls[s][k].op \in TerminalCalls
          /\ calls[s][m].op = "publish"
          /\ \A n \in Idx(s) : (k < n /\ n < m) => calls[s][n].op \notin ReporterCalls

\* C11 (as stated): Terminate releases the job's echo subscription (the
\* update/accepted topic) and publishes nothing: after Terminate no echo
\* handler of that job is subscribed.
C11_TerminateReleasesEcho ==
    \A s \in Slots :
        Has(s, "Terminate") =>
            /\ echoSub # s
            /\ calls[s][Len(calls[s])].op # "publish"

\* C12 (as stated): InProgress returns a transport error when the publish
\* is not acknowledged within the bounded wait or is acknowledged with an
\* error, and nil only when it was acknowledged without error.
C12_InProgressReturnsError ==
    \A s \in Slots :
        sent[s].kind = "InProgress" =>
            (sent[s].err <=> sent[s].outcome # "acked")

\* C13 (as stated): after a call to Success, Fail or Reject has returned,
\* the job's echo subscription is released, also when the status publish
\* returned a transport error.
C13_TerminalReleases ==
    \A s \in Slots :
        sent[s].kind \in TerminalCalls => echoSub # s

\* C14: an envelope without an execution field makes jobHandler return
\* without failing: no echo topic is subscribed, no Handler is started,
\* nothing is published and no Updater method is invoked for it.
C14_NotAJobIgnored ==
    \A s \in Slots :
        je[s].JobID = "" =>
            /\ pc[s] \in {"idle", "ignored"}
            /\ echoSub # s
            /\ calls[s] = <<>>
            /\ job[s] = NoJob
            /\ upd[s] = "none"
            /\ sent[s] = NoSent

C14_Witness ==
    \E s \in Slots :
        /\ pc[s] = "ignored"
        /\ je[s] = NoJE
        /\ agent = "running"

\* C15: ConnectAndSubscribe publishes the start-next request exactly once,
\* after Connect succeeded and after the five subscriptions were issued; if
\* Connect fails there is no subscription and no start-next request.
Position(q, x) == {i \in 1..Len(q) : q[i] = x}

Before(q, x, y) ==
    \A k \in Position(q, y) : \E i \in Position(q, x) : i < k

C15_Startup ==
    /\ Cardinality(Position(boot, "Publish start-next")) = startNext
    /\ agent = "init" => (boot = <<>> /\ ~clientSubs)
    /\ agent = "panicked" =>
          (boot = <<"Connect">> /\ startNext = 0 /\ ~clientSubs)
    /\ agent = "running" =>
          /\ startNext = 1
          /\ boot[1] = "Connect"
          /\ Cardinality(Position(boot, "Connect")) = 1
          /\ \A i \in 1..Len(subscribe) :
                 /\ Cardinality(Position(boot, subscribe[i])) = 1
                 /\ Before(boot, subscribe[i], "Publish start-next")

C15_Witness ==
    /\ agent = "running"
    /\ startNext = 1
    /\ Len(boot) = 7
    /\ boot[7] = "Publish start-next"

\* C16: dispatch does not block on job execution. jobHandler returns once it
\* has subscribed the echo topic and started the handler: a session that has
\* just been dispatched has done nothing but receive its envelope (and
\* perhaps echoes, which the client routes to it concurrently), and while
\* any other session is running (up to waiting on its install) an undelivered
\* envelope can still be dispatched.
C16_DispatchDoesNotBlock ==
    \A s \in Slots :
        /\ pc[s] = "handler" =>
              /\ calls[s][1].op = "envelope"
              /\ \A i \in 2..Len(calls[s]) : calls[s][i].op = "echo"
              /\ job[s] = NoJob /\ upd[s] = "none"
        /\ (agent = "running" /\ clientSubs /\ pc[s] = "idle") =>
              ENABLED JobHandlerFrom(s, InstallRecords)

\* Both sessions wait on their install at the same time.
C16_Witness ==
    /\ pc["s1"] = "select" /\ upd["s1"] = "running"
    /\ pc["s2"] = "select" /\ upd["s2"] = "running"

\* The complete traces of the rollback branch and of the resume branch.
RolledBackShape ==
    << <<"Rollback", "ok">>, <<"Success", "rolled_back">>,
       <<"publish", "SUCCEEDED">> >>

RollbackFailedShape ==
    << <<"Rollback", "error">>, <<"Fail", "ERR_MENDER_ROLLBACK_FAIL">>,
       <<"publish", "FAILED">> >>

CommittedShape ==
    << <<"Commit", "ok">>, <<"Success", "committed">>,
       <<"publish", "SUCCEEDED">> >>

CommitFailedShape ==
    << <<"Commit", "error">>, <<"Fail", "ERR_MENDER_COMMIT">>,
       <<"publish", "FAILED">> >>

\* The session of slot s has taken its branch and does one of the two traces
\* p, q: it is at the Reporter call's publish, or past it with the whole trace.
Does(s, p, q) ==
    \/ pc[s] = "send" /\ Shape(calls[s]) \in {SubSeq(p, 1, 2), SubSeq(q, 1, 2)}
    \/ pc[s] = "done" /\ Shape(calls[s]) \in {p, q}

\* C17: a mender_rollback job, whatever its persisted step, makes Job.exec
\* call Rollback at once: no InProgress report, no Install, no Commit. A
\* successful Rollback is followed by exactly one Success(rolled_back), a
\* failed one by exactly one Fail(ERR_MENDER_ROLLBACK_FAIL) and exec returns
\* Rollback's error.
C17_RollbackBranch ==
    \A s \in Slots : \A step \in PersistedSteps :
        (Entered(s, "mender_rollback", step) /\ Branched(s)) =>
            /\ Does(s, RolledBackShape, RollbackFailedShape)
            /\ pc[s] = "done" =>
                  ret[s] = IF HasEv(s, "Rollback", "ok") THEN "nil"
                           ELSE "rollback error"

\* A rollback job that was persisted as "rebooting" has failed to roll back.
C17_Witness ==
    \E s \in Slots :
        /\ Entered(s, "mender_rollback", "rebooting")
        /\ pc[s] = "done"
        /\ Shape(calls[s]) = RollbackFailedShape

C19_RollbackAfterFailedCommit ==
    \A s \in Slots :
        (HasEv(s, "Commit", "error") /\ pc[s] = "done") =>
            \E i, k \in Idx(s) :
                /\ i < k
                /\ calls[s][i].op = "Rollback"
                /\ calls[s][k].op = "Fail"

\* The progress lines of slot s pushed to the monitoring topic, and the
\* InProgress(installing) calls made since Install was started.
Pushed(s) ==
    {i \in Idx(s) : calls[s][i].op = "monitor" /\ calls[s][i].a = ProgressLine}

RelayedSinceInstall(s) ==
    {k \in Idx(s) :
        /\ calls[s][k].op = "InProgress" /\ calls[s][k].a = "installing"
        /\ \E i \in 1..(k - 1) : calls[s][i].op = "Install"}

\* The literal text of a progress line is the step of no status report.
NoLineAsStep(s) ==
    /\ je[s].StatusDetails.step # ProgressLine
    /\ \A i \in Idx(s) :
          /\ calls[s][i].op \in ReporterCalls => calls[s][i].a # ProgressLine
          /\ calls[s][i].op = "publish" => calls[s][i].b.step # ProgressLine

\* C20 as stated: in a fresh install every progress line received from the
\* Updater is relayed by an InProgress(installing) report of its own and
\* pushed to the monitoring topic, and its text is never a reported step.
C20_LinesRelayedByInProgress ==
    \A s \in Slots :
        (Has(s, "Install") /\ pc[s] = "done") =>
            /\ Cardinality(RelayedSinceInstall(s)) >= Cardinality(Pushed(s))
            /\ NoLineAsStep(s)

\* C20 amended: InProgress(installing) is reported once, before Install is
\* started; every progress line received from the Updater is pushed once to
\* the monitoring topic of the job and causes no status report; its text is
\* never a reported step.
C20_LinesPushedOnly ==
    \A s \in Slots :
        Has(s, "Install") =>
            /\ Cardinality(Pushed(s)) =
                  nprog[s] - (IF upd[s] = "sendProgress" THEN 1 ELSE 0)
            /\ \A i \in Pushed(s) :
                  /\ calls[s][i].b = je[s].JobID
                  /\ \E k \in 1..(i - 1) : calls[s][k].op = "Install"
            /\ RelayedSinceInstall(s) = {}
            /\ Count(s, {"InProgress"}) =
                  1 + (IF HasEv(s, "InProgress", "rebooting") THEN 1 ELSE 0)
            /\ NoLineAsStep(s)

\* A finished install that emitted the most lines the model allows.
C20_Witness ==
    \E s \in Slots :
        /\ pc[s] = "done"
        /\ Has(s, "Install")
        /\ Cardinality(Pushed(s)) = MaxProgress

\* The position of the Commit call in the trace of slot s (0 if none).
CommitAt(s) ==
    IF Has(s, "Commit")
    THEN CHOOSE i \in Idx(s) : calls[s][i].op = "Commit"
    ELSE 0

\* C21 as stated: in the resume branch the session reports InProgress with
\* step "rebooted" through the Reporter, and that status update is published,
\* before Commit is invoked.
C21_RebootedReportedBeforeCommit ==
    \A s \in Slots :
        Has(s, "Commit") =>
            \E i, k \in 1..(CommitAt(s) - 1) :
                /\ i < k
                /\ calls[s][i] = Ev("InProgress", "rebooted", "", 0)
                /\ calls[s][k].op = "publish"
                /\ calls[s][k].b.step = "rebooted"

\* C21 amended: before Commit the session pushes the text "rebooted" to the
\* monitoring topic of the job, once; it makes no Reporter call and publishes
\* no status update before Commit, and none with step "rebooted" at all.
C21_RebootedPushedBeforeCommit ==
    \A s \in Slots :
        Has(s, "Commit") =>
            /\ Cardinality({i \in Idx(s) :
                   calls[s][i] = Ev("monitor", "rebooted", je[s].JobID, 0)}) = 1
            /\ \E i \in 1..(CommitAt(s) - 1) :
                   calls[s][i] = Ev("monitor", "rebooted", je[s].JobID, 0)
            /\ \A i \in 1..(CommitAt(s) - 1) :
                   calls[s][i].op \notin (ReporterCalls \cup {"publish"})
            /\ ~HasEv(s, "InProgress", "rebooted")
            /\ \A i \in Idx(s) :
                   calls[s][i].op = "publish" => calls[s][i].b.step # "rebooted"

C21_Witness ==
    \E s \in Slots :
        /\ Entered(s, "mender_install", "rebooting")
        /\ HasEv(s, "Commit", "ok")
        /\ pc[s] = "done"

\* Slot t holds the job of slot s, delivered again after s rebooted the
\* machine; RedeliveredStep is the step the service had recorded for it.
Redelivered(s, t) ==
    /\ t # s
    /\ Rebooted(s)
    /\ calls[t] # <<>>
    /\ calls[t][1].op = "envelope"
    /\ calls[t][1].a = je[s].JobID

RedeliveredStep(t) == calls[t][1].b.step

\* C22: nothing is kept on the device. After a successful install the reboot
\* is triggered whatever became of the InProgress(rebooting) report; when
\* that report was lost or not acknowledged the service has not recorded it,
\* and a job delivered again with a recorded step other than "rebooting"
\* runs a second Install and never Commit.
C22_NoDurableState ==
    \A s \in Slots :
        /\ (HasEv(s, "result", "ok") /\ pc[s] = "done") => Has(s, "Reboot")
        /\ \A t \in Slots :
             Redelivered(s, t) =>
                /\ sent[s].kind = "InProgress"
                /\ sent[s].outcome \in {"lost", "error"} =>
                      RedeliveredStep(t) # "rebooting"
                /\ (RedeliveredStep(t) # "rebooting" /\ Branched(t)) =>
                      /\ ~Has(t, "Commit")
                      /\ HasEv(t, "InProgress", "installing")
                      /\ InstallStarted(t) => Count(t, {"Install"}) = 1

\* The rebooting report reached the service and was ignored for its stale
\* expectedVersion; after the restart the job is installed a second time.
C22_Witness ==
    \E s, t \in Slots :
        /\ Redelivered(s, t)
        /\ sent[s].outcome = "acked"
        /\ RedeliveredStep(t) = "installing"
        /\ Has(s, "Install")
        /\ Has(t, "Install")

\* C23: a mender_install job delivered with a persisted step other than
\* "rebooting" (such as "installing", left by an interrupted install) is
\* installed again: Job.exec reports InProgress(installing), runs Install
\* once with the job's URL, and never calls Commit.
C23_InterruptedInstallsAgain ==
    \A s \in Slots : \A step \in PersistedSteps \ {"rebooting"} :
        (Entered(s, "mender_install", step) /\ Branched(s)) =>
            /\ ~Has(s, "Commit")
            /\ HasEv(s, "InProgress", "installing")
            /\ InstallStarted(s) =>
                  Count(s, {"Install"}) = 1 /\ HasEv(s, "Install", job[s].URL)

C23_Witness ==
    \E s \in Slots :
        /\ Entered(s, "mender_install", "installing")
        /\ HasEv(s, "Install", "http://test")
        /\ HasEv(s, "result", "ok")

\* The position of the deadline's expiry in the trace of slot s (0 if none).
TimeoutAt(s) ==
    IF Has(s, "timeout")
    THEN CHOOSE i \in Idx(s) : calls[s][i].op = "timeout"
    ELSE 0

\* C24: a session (Process, Job.exec and the reboot goroutine) issues at most
\* one terminal report, on every path. Once the deadline has fired the
\* session makes the one Fail for it and takes nothing more from the Updater:
\* a result or a progress line emitted afterwards causes no call at all.
C24_OneTerminalReport ==
    \A s \in Slots :
        /\ Count(s, TerminalCalls) <= 1
        /\ Has(s, "timeout") =>
              /\ Count(s, {"timeout"}) = 1
              /\ calls[s][TimeoutAt(s) + 1] =
                    Ev("Fail", "ERR_MENDER_INSTALL_TIMEOUT", "", 0)
              /\ \A i \in (TimeoutAt(s) + 2)..Len(calls[s]) :
                    calls[s][i].op \in {"publish", "echo"}
              /\ Count(s, {"publish"}) <= 2

\* The deadline has fired, the session is over, and the Updater then ended
\* and waits to hand over its result.
C24_Witness ==
    \E s \in Slots :
        /\ Has(s, "timeout")
        /\ pc[s] = "done"
        /\ upd[s] \in {"sendOk", "sendErr"}
        /\ Count(s, TerminalCalls) = 1

\* C25: once a JobExecution has been finalized (its status set to SUCCEEDED,
\* FAILED or REJECTED) its status, statusDetails and versionNumber never
\* change again: later echoes are ignored.
C25_FinalizedImmutable ==
    [][\A s \in Slots : je[s].Status \in Terminal => je'[s] = je[s]]_vars

\* C26: sessions of distinct jobs are independent with respect to echoes: an
\* echo handled for the record of a job is an echo of that job's own update.
C26_EchoOfOwnJob ==
    \A s \in Slots : \A i \in Idx(s) :
        calls[s][i].op = "echo" => calls[s][i].a = je[s].JobID

\* A slot holds a dispatched job whose record is not yet final.
NonTerminal(s) == je[s].JobID # "" /\ je[s].Status \notin Terminal

\* C27: a job that is still non-terminal keeps its echo subscription: its
\* updateHandler stays the one bound to the echo topic, whatever calls it
\* makes itself and whatever is dispatched or finalized for another job.
C27_SubscriptionKept ==
    \A s \in Slots :
        (NonTerminal(s) /\ \A t \in Slots \ {s} : je[t].JobID # je[s].JobID) =>
            echoSub = s

\* C28: the versionNumber of a JobExecution never decreases.
C28_VersionMonotonic ==
    [][\A s \in Slots : je'[s].VersionNumber >= je[s].VersionNumber]_vars

\* The last Reporter call made by slot s before position i of its trace.
LastCallBefore(s, i) ==
    LET ks == {k \in 1..(i - 1) : calls[s][k].op \in ReporterCalls}
    IN calls[s][CHOOSE k \in ks : \A m \in ks : m <= k]

\* C29: every status message published carries the status and the
\* statusDetails set by the Reporter call that publishes it.
C29_PublishesWhatWasSet ==
    \A s \in Slots : \A i \in Idx(s) :
        calls[s][i].op = "publish" =>
            /\ calls[s][i].a = StatusOf(LastCallBefore(s, i).op)
            /\ calls[s][i].b = DetailsOf(LastCallBefore(s, i).op,
                                         LastCallBefore(s, i).a)

\* The session of a slot is running.
Active(s) == pc[s] \notin {"idle", "ignored", "done"}

\* C30: at most one session per job is running at any time, and the install
\* of a job is not running twice at once.
C30_OneSessionPerJob ==
    \A s, t \in Slots :
        (s # t /\ Active(s) /\ Active(t)) => je[s].JobID # je[t].JobID

\* The position of the reboot trigger in the trace of slot s (0 if none).
RebootAt(s) ==
    IF Has(s, "Reboot")
    THEN CHOOSE i \in Idx(s) : calls[s][i].op = "Reboot"
    ELSE 0

\* C31: the reboot trigger is invoked at most once per session, only in a
\* fresh-install session, and only after Install delivered a success result
\* and InProgress(rebooting) was issued after it; never after an install
\* error or timeout, nor in a resume, rollback or rejected session.
C31_RebootOnlyAfterInstall ==
    \A s \in Slots :
        /\ Count(s, {"Reboot"}) <= 1
        /\ Has(s, "Reboot") =>
              /\ \E step \in PersistedSteps \ {"rebooting"} :
                     Entered(s, "mender_install", step)
              /\ \E i, k, m \in 1..(RebootAt(s) - 1) :
                     /\ i < k /\ k < m
                     /\ calls[s][i] = Ev("result", "ok", "", 0)
                     /\ calls[s][k] = Ev("InProgress", "rebooting", "", 0)
                     /\ calls[s][m].op = "publish"
              /\ ~HasEv(s, "result", "error")
              /\ ~Has(s, "timeout")
              /\ ~Has(s, "Commit") /\ ~Has(s, "Rollback") /\ ~Has(s, "Reject")
        /\ (pc[s] = "done" /\ ~HasEv(s, "result", "ok")) => ~Has(s, "Reboot")

\* The reboot trigger was invoked, after an install with progress lines.
C31_Witness ==
    \E s \in Slots :
        /\ HasEv(s, "Reboot", "ok")
        /\ HasEv(s, "monitor", ProgressLine)
        /\ pc[s] = "done"

\* The install task is blocked sending on the progress or the done channel.
BlockedSends == {"sendProgress", "sendOk", "sendErr"}

\* C32: after the deadline fired and Fail(ERR_MENDER_INSTALL_TIMEOUT) was
\* reported the install task is not cancelled: it has not ended, and once it
\* is blocked in a send on the progress or the done channel it stays there,
\* for nobody receives from those channels any more.
C32_TaskLeftBlocked ==
    /\ [](\A s \in Slots :
            Has(s, "timeout") =>
                /\ HasEv(s, "Fail", "ERR_MENDER_INSTALL_TIMEOUT")
                /\ upd[s] \in {"running"} \cup BlockedSends)
    /\ [][\A s \in Slots :
            (Has(s, "timeout") /\ upd[s] \in BlockedSends) => upd'[s] = upd[s]]_vars

\* The session has timed out and ended; the task then read another line and
\* waits to send it.
C32_Witness ==
    \E s \in Slots :
        /\ Has(s, "timeout")
        /\ pc[s] = "done"
        /\ upd[s] = "sendProgress"
        /\ nprog[s] > Count(s, {"monitor"})

\* A fresh-install session has ended: with one Fail for the install's error
\* or timeout and nothing else, or with the reboot trigger.
FreshInstall(s) ==
    \E step \in PersistedSteps \ {"rebooting"} : Entered(s, "mender_install", step)

EndedByFail(s) ==
    /\ Count(s, TerminalCalls) = 1
    /\ ~Has(s, "Reboot")
    /\ \/ HasEv(s, "Fail", "ERR_MENDER_INSTALL_FAILED")
       \/ HasEv(s, "Fail", "ERR_MENDER_INSTALL_TIMEOUT")

Ended(s) == pc[s] = "done" /\ (EndedByFail(s) \/ Has(s, "Reboot"))

\* C33: a fresh-install session eventually ends, with exactly one Fail
\* (install error or timeout) or with the reboot trigger, also when the
\* Updater never delivers a result.
C33_SessionEnds ==
    \A s \in Slots : FreshInstall(s) ~> Ended(s)

\* The session ended by its deadline while the Updater had neither emitted a
\* line nor delivered a result.
C33_Witness ==
    \E s \in Slots :
        /\ FreshInstall(s)
        /\ Ended(s)
        /\ upd[s] = "running"
        /\ nprog[s] = 0
        /\ HasEv(s, "Fail", "ERR_MENDER_INSTALL_TIMEOUT")
====
